---- MODULE Spec2Model ----
(***************************************************************************)
(* Model of the Beacn Mic device session (src/src/device.rs) and of the    *)
(* Exciter message family (src/src/audio/messages/exciter.rs).             *)
(*                                                                         *)
(* Bytes are naturals 0..255, byte arrays are sequences; At(a, i) reads    *)
(* the array with the 0-based index the Rust code uses.  A 32-bit word is  *)
(* kept as two 16-bit limbs [hi, lo] so that no shift is lost to the       *)
(* model checker's integer width.                                          *)
(***************************************************************************)
EXTENDS Integers, Sequences, FiniteSets, TLC

VARIABLES
    session,            \* Unopened / Handshaking / Ready / Failed (spec 4.4)
    pc,                 \* the position of the running call
    device_type,        \* BeacnMic.device_type
    handle,             \* BeacnMic.handle: TRUE when the session holds it
    serial,             \* BeacnMic.serial (bytes of the string)
    firmware_version,   \* BeacnMic.firmware_version
    locals,             \* the local variables of the running call
    wire,               \* the transport operations issued by the running call
    result              \* what the last call returned

vars == <<session, pc, device_type, handle, serial, firmware_version,
          locals, wire, result>>

-----------------------------------------------------------------------------
(* Bounds of the model.                                                    *)

\* the longest serial the modelled device sends
MaxSerialLen == 3

\* the sampled Percent and ExciterFreq values are the multiples of 2^-FracBits
\* (Percent) and of 25 * 2^-FracBits (ExciterFreq) within the declared range
FracBits == 2

-----------------------------------------------------------------------------
(* Byte and word helpers.                                                  *)

Byte == 0..255

At(a, i) == a[i + 1]

\* a[from..to) as the Rust slice a[from..to]
Slice(a, from, to) == [i \in 1..(to - from) |-> a[from + i]]

RECURSIVE Pow2(_)
Pow2(n) == IF n = 0 THEN 1 ELSE 2 * Pow2(n - 1)

Zeros(n) == [i \in 1..n |-> 0]

\* the buffer `buf` after a read that delivered `data` into it
Deliver(buf, data) ==
    [i \in 1..Len(buf) |-> IF i <= Len(data) THEN data[i] ELSE buf[i]]

\* u32 >> n on the limbs
Shr(w, n) ==
    IF n >= 16
    THEN [hi |-> 0, lo |-> w.hi \div Pow2(n - 16)]
    ELSE [hi |-> w.hi \div Pow2(n),
          lo |-> (w.lo \div Pow2(n)) + (w.hi % Pow2(n)) * Pow2(16 - n)]

\* u32 & mask, for the masks 0xf, 0xff, 0xffff
AndMask(w, bits) == [hi |-> 0, lo |-> w.lo % Pow2(bits)]

\* the value of a word that fits 16 bits; the high limb is carried otherwise
WordVal(w) == IF w.hi = 0 THEN w.lo ELSE w.hi * 65536 + w.lo

-----------------------------------------------------------------------------
(* Protocol constants of device.rs.                                        *)

INPUT_LEN == 512
REPLY_LEN == 8
OP_SETUP == 160
OP_IDENTIFY == 161
OP_LOOKUP == 163
OP_SET == 164

-----------------------------------------------------------------------------
(* Typed values and the value codec (crate::types).  An f32 is kept as the *)
(* exact dyadic number m * 2^e it denotes (m odd, or m = 0 and e = 0), a   *)
(* bool as m = 1 / m = 0.                                                  *)

F32(m, e) == [t |-> "f32", m |-> m, e |-> e]
Bool(b) == [t |-> "bool", m |-> IF b THEN 1 ELSE 0, e |-> 0]
NoValue == [t |-> "none", m |-> 0, e |-> 0]
NaN == [t |-> "nan", m |-> 0, e |-> 0]
Infinity(sign) == [t |-> "inf", m |-> sign, e |-> 0]

Abs(n) == IF n < 0 THEN -n ELSE n

\* position of the highest set bit of n > 0
RECURSIVE BitLen(_)
BitLen(n) == IF n <= 1 THEN 0 ELSE 1 + BitLen(n \div 2)

\* m * 2^e with the trailing zero bits of m moved into e
RECURSIVE Normalise(_, _)
Normalise(m, e) ==
    IF m = 0 THEN F32(0, 0)
    ELSE IF m % 2 = 0 THEN Normalise(m \div 2, e + 1)
    ELSE F32(m, e)

\* f32::write_beacn: the little-endian IEEE-754 single precision bytes
f32_write_beacn(v) ==
    IF v.m = 0 THEN <<0, 0, 0, 0>>
    ELSE LET k == BitLen(Abs(v.m))
             biased == k + v.e + 127
             mant == (Abs(v.m) - Pow2(k)) * Pow2(23 - k)
             sign == IF v.m < 0 THEN 128 ELSE 0
         IN  <<mant % 256,
               (mant \div 256) % 256,
               (biased % 2) * 128 + mant \div 65536,
               sign + biased \div 2>>

\* f32::read_beacn: the number the little-endian IEEE-754 bytes denote
f32_read_beacn(b) ==
    LET biased == (At(b, 3) % 128) * 2 + At(b, 2) \div 128
        mant == (At(b, 2) % 128) * 65536 + At(b, 1) * 256 + At(b, 0)
        sign == IF At(b, 3) >= 128 THEN -1 ELSE 1
    IN  IF biased = 255 THEN (IF mant = 0 THEN Infinity(sign) ELSE NaN)
        ELSE IF biased = 0 THEN Normalise(sign * mant, -149)
        ELSE Normalise(sign * (8388608 + mant), biased - 150)

\* bool::write_beacn: one meaningful byte, the other three zero
bool_write_beacn(v) == <<v.m, 0, 0, 0>>

\* bool::read_beacn: the low byte decides
bool_read_beacn(b) == Bool(At(b, 0) # 0)

\* v > bound, for a finite dyadic v and an integer bound >= 1
GreaterThan(v, bound) ==
    IF v.m <= 0 THEN FALSE
    ELSE IF v.e >= 0
         THEN (v.e >= 24) \/ (v.m > bound \div Pow2(v.e))
         ELSE IF -v.e >= 24 THEN FALSE
              ELSE LET q == v.m \div Pow2(-v.e)
                       r == v.m % Pow2(-v.e)
                   IN  q > bound \/ (q = bound /\ r > 0)

\* the bounded float types: the decoded number brought into 0..=bound
Clamp(v, bound) ==
    IF v.t = "nan" THEN v
    ELSE IF v.t = "inf" THEN (IF v.m < 0 THEN F32(0, 0) ELSE Normalise(bound, 0))
    ELSE IF v.m < 0 THEN F32(0, 0)
    ELSE IF GreaterThan(v, bound) THEN Normalise(bound, 0)
    ELSE v

PERCENT_MAX == 100
EXCITER_FREQ_MAX == 5000

write_value(v) == f32_write_beacn(v)
read_value(b, bound) == Clamp(f32_read_beacn(b), bound)

-----------------------------------------------------------------------------
(* Messages: the Exciter family of exciter.rs, and the dispatcher          *)
(* (crate::messages::Message) that aggregates the families.                *)

DeviceTypes == {"BeacnMic", "BeacnStudio"}
DeviceMessageTypes == {"Common", "BeacnMic", "BeacnStudio"}

Msg(family, variant, value) ==
    [family |-> family, variant |-> variant, value |-> value]

\* the outcome of a fatal abort (panic!) in place of a message or of bytes
Panic(why) == Msg("panic", why, NoValue)
IsPanic(m) == m.family = "panic"

ExciterGetters == {"GetAmount", "GetFrequency", "GetEnabled"}
ExciterSetters == {"Amount", "Frequency", "Enabled"}

\* Exciter::get_device_message_type
Exciter_get_device_message_type(m) == "Common"

\* Exciter::is_device_message_set
Exciter_is_device_message_set(m) == m.variant \in {"Amount", "Frequency", "Enabled"}

\* to_beacn_key with the getters marked in the second key byte
Exciter_to_beacn_key_marks_getter(m) ==
    IF m.variant = "Amount" THEN <<1, 0>>
    ELSE IF m.variant = "GetAmount" THEN <<1, 1>>
    ELSE IF m.variant = "Frequency" THEN <<2, 0>>
    ELSE IF m.variant = "GetFrequency" THEN <<2, 1>>
    ELSE IF m.variant = "Enabled" THEN <<3, 0>>
    ELSE <<3, 1>>

\* Exciter::to_beacn_key
Exciter_to_beacn_key(m) ==
    IF m.variant \in {"Amount", "GetAmount"} THEN <<1, 0>>
    ELSE IF m.variant \in {"Frequency", "GetFrequency"} THEN <<2, 0>>
    ELSE <<3, 0>>

\* what a call that panics leaves in place of the 4 value bytes: no bytes
Aborted == <<>>

\* to_beacn_value answering a getter with zero bytes in place of the panic
Exciter_to_beacn_value_zero(m) ==
    IF m.variant = "Amount" THEN write_value(m.value)
    ELSE IF m.variant = "Frequency" THEN write_value(m.value)
    ELSE IF m.variant = "Enabled" THEN bool_write_beacn(m.value)
    ELSE <<0, 0, 0, 0>>

\* Exciter::to_beacn_value; Aborted stands for panic!("Attempted to Set a Getter")
Exciter_to_beacn_value(m) ==
    IF m.variant = "Amount" THEN write_value(m.value)
    ELSE IF m.variant = "Frequency" THEN write_value(m.value)
    ELSE IF m.variant = "Enabled" THEN bool_write_beacn(m.value)
    ELSE Aborted

\* from_beacn with the arms of 0x01 and 0x02 exchanged
Exciter_from_beacn_swapped(key, value, dt) ==
    IF At(key, 0) = 2 THEN Msg("Exciter", "Amount", read_value(value, PERCENT_MAX))
    ELSE IF At(key, 0) = 1
         THEN Msg("Exciter", "Frequency", read_value(value, EXCITER_FREQ_MAX))
    ELSE IF At(key, 0) = 3 THEN Msg("Exciter", "Enabled", bool_read_beacn(value))
    ELSE Panic("Couldn't Find Key")

\* from_beacn with a default arm in place of the panic
Exciter_from_beacn_default(key, value, dt) ==
    IF At(key, 0) = 1 THEN Msg("Exciter", "Amount", read_value(value, PERCENT_MAX))
    ELSE IF At(key, 0) = 2
         THEN Msg("Exciter", "Frequency", read_value(value, EXCITER_FREQ_MAX))
    ELSE Msg("Exciter", "Enabled", bool_read_beacn(value))

\* Exciter::from_beacn
Exciter_from_beacn(key, value, dt) ==
    IF At(key, 0) = 1 THEN Msg("Exciter", "Amount", read_value(value, PERCENT_MAX))
    ELSE IF At(key, 0) = 2
         THEN Msg("Exciter", "Frequency", read_value(value, EXCITER_FREQ_MAX))
    ELSE IF At(key, 0) = 3 THEN Msg("Exciter", "Enabled", bool_read_beacn(value))
    ELSE Panic("Couldn't Find Key")

\* generate_fetch_message with the last two getters exchanged
Exciter_generate_fetch_message_unordered(dt) ==
    <<Msg("Exciter", "GetAmount", NoValue),
      Msg("Exciter", "GetEnabled", NoValue),
      Msg("Exciter", "GetFrequency", NoValue)>>

\* Exciter::generate_fetch_message
Exciter_generate_fetch_message(dt) ==
    <<Msg("Exciter", "GetAmount", NoValue),
      Msg("Exciter", "GetFrequency", NoValue),
      Msg("Exciter", "GetEnabled", NoValue)>>

\* The families of the dispatcher.  Exciter is the family of exciter.rs; MicOnly
\* and StudioOnly stand for the families whose messages are restricted to one
\* device type, each with one field.
Families == {"Exciter", "MicOnly", "StudioOnly"}

FAMILY_EXCITER == 10
FAMILY_MIC_ONLY == 20
FAMILY_STUDIO_ONLY == 30

FamilyId(family) ==
    IF family = "Exciter" THEN FAMILY_EXCITER
    ELSE IF family = "MicOnly" THEN FAMILY_MIC_ONLY
    ELSE FAMILY_STUDIO_ONLY

\* Message::get_device_message_type
get_device_message_type(m) ==
    IF m.family = "Exciter" THEN Exciter_get_device_message_type(m)
    ELSE IF m.family = "MicOnly" THEN "BeacnMic"
    ELSE "BeacnStudio"

\* Message::to_beacn_key: the family byte, then the family's 2-byte key
to_beacn_key(m) ==
    <<FamilyId(m.family)>> \o
        (IF m.family = "Exciter" THEN Exciter_to_beacn_key(m) ELSE <<1, 0>>)

\* Message::to_beacn_value
to_beacn_value(m) ==
    IF m.family = "Exciter" THEN Exciter_to_beacn_value(m)
    ELSE IF m.variant = "Value" THEN bool_write_beacn(m.value)
    ELSE Aborted

\* Message::from_beacn_message: [family:1][key:2][opcode:1][value:4]
from_beacn_message(buf, dt) ==
    LET key == Slice(buf, 1, 3)
        value == Slice(buf, 4, 8)
    IN  IF At(buf, 0) = FAMILY_EXCITER THEN Exciter_from_beacn(key, value, dt)
        ELSE IF At(buf, 0) = FAMILY_MIC_ONLY
             THEN Msg("MicOnly", "Value", bool_read_beacn(value))
        ELSE IF At(buf, 0) = FAMILY_STUDIO_ONLY
             THEN Msg("StudioOnly", "Value", bool_read_beacn(value))
        ELSE Panic("Couldn't Find Family")


-----------------------------------------------------------------------------
(* The session: state, results, transport log.                             *)

NoMessage == Msg("none", "none", NoValue)

VersionNumber(major, minor, patch, build) ==
    [major |-> major, minor |-> minor, patch |-> patch, build |-> build]

\* the fields of a session that does not exist
NoVersion == VersionNumber(-1, -1, -1, -1)
NoDeviceType == "none"

NoLocals ==
    [op |-> "none", device_type |-> NoDeviceType, message |-> NoMessage,
     key |-> <<>>, value |-> <<>>, request |-> <<>>, lookup |-> <<>>,
     buf |-> <<>>]

NoResult == [status |-> "none", error |-> "", message |-> NoMessage]
Ok(m) == [status |-> "ok", error |-> "", message |-> m]
Err(e) == [status |-> "err", error |-> e, message |-> NoMessage]
Panicked(m) == [status |-> "panic", error |-> m.variant, message |-> NoMessage]

\* one transport operation: the place in the code that issued it, the rusb
\* call, the bytes written, whether it succeeded, the bytes a read delivered
Transport(step, op, data, ok, n) ==
    [step |-> step, op |-> op, data |-> data, ok |-> ok, n |-> n]

Init ==
    /\ session = "Unopened"
    /\ pc = "open"
    /\ device_type = NoDeviceType
    /\ handle = FALSE
    /\ serial = <<>>
    /\ firmware_version = NoVersion
    /\ locals = NoLocals
    /\ wire = <<>>
    /\ result = NoResult

-----------------------------------------------------------------------------
(* BeacnMic::open.                                                         *)

ProductIds == {"PID_BEACN_MIC", "PID_BEACN_STUDIO", "PID_OTHER"}

\* a transport call whose failure is answered by trying the same call again
Propagate_retry(ok, here, next) == IF ok THEN next ELSE here

\* the `?` after a transport call: the position the call continues at
Propagate(ok, here, next) == IF ok THEN next ELSE "return_err"

\* open returns Err: no session is constructed, the handle is dropped
OpenFails(e) ==
    /\ session' = "Failed"
    /\ pc' = "done"
    /\ handle' = FALSE
    /\ locals' = NoLocals
    /\ result' = Err(e)
    /\ UNCHANGED <<device_type, serial, firmware_version>>

\* one setup step of open: a transport call followed by `?`
OpenStep(here, op, data, next) ==
    /\ session = "Handshaking"
    /\ pc = here
    /\ \E ok \in BOOLEAN :
          /\ wire' = Append(wire, Transport(here, op, data, ok, 0))
          /\ LET to == Propagate(ok, here, next)
             IN  IF to = "return_err"
                 THEN OpenFails("rusb::Error")
                 ELSE /\ pc' = to
                      /\ handle' = TRUE
                      /\ UNCHANGED <<session, device_type, serial,
                                     firmware_version, locals, result>>

\* find_device and the classification of the product id
open_find_device ==
    /\ session = "Unopened"
    /\ pc = "open"
    /\ wire' = wire
    /\ \E found \in BOOLEAN, pid \in ProductIds :
          IF ~found THEN OpenFails("Unable to find Device")
          ELSE IF pid = "PID_BEACN_MIC" \/ pid = "PID_BEACN_STUDIO"
          THEN /\ session' = "Handshaking"
               /\ pc' = "device_open"
               /\ locals' = [NoLocals EXCEPT
                      !.op = "open",
                      !.device_type = IF pid = "PID_BEACN_MIC"
                                      THEN "BeacnMic" ELSE "BeacnStudio"]
               /\ UNCHANGED <<device_type, handle, serial, firmware_version, result>>
          ELSE OpenFails("Device is not a Mic or Studio")

open_device_open ==
    OpenStep("device_open", "open", <<>>, "claim_interface")

open_claim_interface ==
    OpenStep("claim_interface", "claim_interface", <<>>, "set_alternate_setting")

open_set_alternate_setting ==
    OpenStep("set_alternate_setting", "set_alternate_setting", <<>>, "clear_halt")

\* clear_halt followed at once by the identify command: the setup command is lost
open_clear_halt_skips_setup ==
    OpenStep("clear_halt", "clear_halt", <<>>, "write_identify")

open_clear_halt ==
    OpenStep("clear_halt", "clear_halt", <<>>, "write_setup")

open_write_setup ==
    OpenStep("write_setup", "write_bulk", <<0, 0, 0, OP_SETUP>>, "write_identify")

open_write_identify ==
    OpenStep("write_identify", "write_bulk", <<0, 0, 0, OP_IDENTIFY>>, "read_identify")

\* cursor.read_u32::<LittleEndian>() at position pos
read_u32_le(input, pos) ==
    [lo |-> At(input, pos) + 256 * At(input, pos + 1),
     hi |-> At(input, pos + 2) + 256 * At(input, pos + 3)]

\* whether the cursor over `input` holds k more bytes at position pos
CursorHas(input, pos, k) == pos + k <= Len(input)

\* the breakdown with the mask of the minor number forgotten
DecodeVersion_unmasked(version) ==
    VersionNumber(WordVal(Shr(version, 28)),
                  WordVal(Shr(version, 24)),
                  WordVal(AndMask(Shr(version, 16), 8)),
                  WordVal(AndMask(version, 16)))

\* the breakdown of the version word
DecodeVersion(version) ==
    VersionNumber(WordVal(Shr(version, 28)),
                  WordVal(AndMask(Shr(version, 24), 4)),
                  WordVal(AndMask(Shr(version, 16), 8)),
                  WordVal(AndMask(version, 16)))

\* the loop pushing the byte before it tests it: the zero byte is kept
SerialEnd_keeps_zero(input, pos) ==
    LET zeros == {i \in pos..(Len(input) - 1) : At(input, i) = 0}
    IN  IF zeros = {} THEN Len(input)
        ELSE (CHOOSE i \in zeros : \A j \in zeros : i <= j) + 1

\* the position at which the loop over cursor.bytes() ends: the first zero
\* byte at or after pos, or the end of the buffer
SerialEnd(input, pos) ==
    LET zeros == {i \in pos..(Len(input) - 1) : At(input, i) = 0}
    IN  IF zeros = {} THEN Len(input)
        ELSE CHOOSE i \in zeros : \A j \in zeros : i <= j

\* the bytes the loop pushes to serial_bytes
SerialBytes(input, pos) == Slice(input, pos, SerialEnd(input, pos))

\* String::from_utf8_lossy on ASCII bytes and on bytes that no UTF-8 sequence
\* holds (0xF8..0xFF): the latter become U+FFFD
from_utf8_lossy(bytes) ==
    [i \in 1..Len(bytes) |-> IF bytes[i] < 128 THEN bytes[i] ELSE 65533]

IdentifyHeader == <<0, 0, 0, 161>>
VersionSamples == {<<120, 86, 52, 18>>}
SerialAlphabet == {65}
SerialSamples ==
    UNION {[1..n -> SerialAlphabet] : n \in 0..MaxSerialLen}
TrailingSamples == {<<>>, <<0>>, <<0, 255, 255>>}
ShortLens == {0, 4, 6}

\* what the device may answer to the identify command
IdentifyReplies ==
    LET full == {IdentifyHeader \o v \o s \o t :
                    v \in VersionSamples, s \in SerialSamples, t \in TrailingSamples}
        long == {IdentifyHeader \o v \o [i \in 1..(INPUT_LEN - 8) |-> 65] :
                    v \in VersionSamples}
        short == {SubSeq(IdentifyHeader \o v, 1, n) :
                    v \in VersionSamples, n \in ShortLens}
    IN  full \cup long \cup short

\* read_bulk of the identify reply, the parse, and the construction of Self
open_read_identify ==
    /\ session = "Handshaking"
    /\ pc = "read_identify"
    /\ \E ok \in BOOLEAN, reply \in IdentifyReplies :
          LET input == Deliver(Zeros(INPUT_LEN), reply)
              n == IF ok THEN Len(reply) ELSE 0
              to == Propagate(ok, "read_identify", "parse")
          IN  /\ wire' = Append(wire,
                     Transport("read_identify", "read_bulk", <<>>, ok, n))
              /\ IF to = "return_err" THEN OpenFails("rusb::Error")
                 ELSE IF ~CursorHas(input, 0, 4) \/ ~CursorHas(input, 4, 4)
                 THEN OpenFails("io::Error")
                 ELSE /\ session' = "Ready"
                      /\ pc' = "idle"
                      /\ device_type' = locals.device_type
                      /\ handle' = TRUE
                      /\ firmware_version' = DecodeVersion(read_u32_le(input, 4))
                      /\ serial' = from_utf8_lossy(SerialBytes(input, 8))
                      /\ locals' = NoLocals
                      /\ result' = Ok(NoMessage)

-----------------------------------------------------------------------------
(* BeacnMic::fetch_value, set_value, param_lookup, param_set.              *)

PercentSamples == {F32(0, 0), Normalise(PERCENT_MAX, 0)}
FreqSamples == {Normalise(EXCITER_FREQ_MAX, 0)}

\* the messages a caller passes
Messages ==
    {Msg("Exciter", g, NoValue) : g \in ExciterGetters}
    \cup {Msg("Exciter", "Amount", v) : v \in PercentSamples}
    \cup {Msg("Exciter", "Frequency", v) : v \in FreqSamples}
    \cup {Msg("Exciter", "Enabled", Bool(b)) : b \in BOOLEAN}
    \cup {Msg(f, "Get", NoValue) : f \in {"MicOnly", "StudioOnly"}}
    \cup {Msg(f, "Value", Bool(TRUE)) : f \in {"MicOnly", "StudioOnly"}}

\* is_command_valid with the BeacnStudio arm testing for the wrong device type
is_command_valid_wrong_arm(dt, message) ==
    LET kind == get_device_message_type(message)
    IN  IF kind = "Common" THEN TRUE
        ELSE dt = "BeacnMic"

\* BeacnMic::is_command_valid
is_command_valid(dt, message) ==
    LET kind == get_device_message_type(message)
    IN  IF kind = "Common" THEN TRUE
        ELSE IF kind = "BeacnMic" THEN dt = "BeacnMic"
        ELSE dt = "BeacnStudio"

\* an error return that also gives up the session's handle
Bail_drops_handle(e, l) ==
    /\ result' = Err(e)
    /\ pc' = "idle"
    /\ locals' = l
    /\ handle' = FALSE
    /\ UNCHANGED <<session, device_type, serial, firmware_version>>

\* bail! and `?` in fetch_value / set_value / param_lookup / param_set: the
\* call returns Err through &self
Bail(e, l) ==
    /\ result' = Err(e)
    /\ pc' = "idle"
    /\ locals' = l
    /\ UNCHANGED <<session, device_type, handle, serial, firmware_version>>

\* panic!: the call never returns
Abort(m, l) ==
    /\ result' = Panicked(m)
    /\ pc' = "panicked"
    /\ locals' = l
    /\ UNCHANGED <<session, device_type, handle, serial, firmware_version>>

\* the call goes on at position `to` with locals `l`; once a call has returned,
\* locals keeps its last frame until the next call begins
Continue(to, l) ==
    /\ pc' = to
    /\ locals' = l
    /\ result' = NoResult
    /\ UNCHANGED <<session, device_type, handle, serial, firmware_version>>

\* fetch_value up to the call of param_lookup
fetch_value ==
    /\ session = "Ready"
    /\ pc = "idle"
    /\ wire' = <<>>
    /\ \E message \in Messages :
          LET frame == [NoLocals EXCEPT !.op = "fetch", !.message = message]
          IN  IF ~is_command_valid(device_type, message)
              THEN Bail("Command is not valid for this device", frame)
              ELSE Continue("lookup_write",
                            [frame EXCEPT !.key = to_beacn_key(message)])

\* set_value up to the call of param_set
set_value ==
    /\ session = "Ready"
    /\ pc = "idle"
    /\ wire' = <<>>
    /\ \E message \in Messages :
          LET frame == [NoLocals EXCEPT !.op = "set", !.message = message]
          IN  IF ~is_command_valid(device_type, message)
              THEN Bail("Command is not valid for this device", frame)
              ELSE IF to_beacn_value(message) = Aborted
              THEN Abort(Panic("Attempted to Set a Getter"),
                         [frame EXCEPT !.key = to_beacn_key(message)])
              ELSE Continue("set_write",
                            [frame EXCEPT !.key = to_beacn_key(message),
                                          !.value = to_beacn_value(message)])

\* the set request built with the opcode of the lookup
SetRequest_lookup_opcode(key, value) == key \o <<OP_LOOKUP>> \o value

\* param_set: the set request key[0..3] + 0xa4 + value[0..4]
SetRequest(key, value) == key \o <<OP_SET>> \o value

\* param_lookup: the lookup request key[0..3] + 0xa3
LookupRequest(key) == key \o <<OP_LOOKUP>>

\* param_set reading a reply to the set request itself: no lookup is written
param_set_write_then_read ==
    /\ session = "Ready"
    /\ pc = "set_write"
    /\ \E ok \in BOOLEAN :
          LET request == SetRequest(locals.key, locals.value)
              to == Propagate(ok, "set_write", "lookup_read")
          IN  /\ wire' = Append(wire,
                     Transport("set_write", "write_bulk", request, ok, 0))
              /\ IF to = "return_err"
                 THEN Bail("rusb::Error", [locals EXCEPT !.request = request])
                 ELSE Continue(to, [locals EXCEPT !.request = request,
                                                  !.lookup = LookupRequest(locals.key)])

\* param_set: build the set request and write it
param_set_write ==
    /\ session = "Ready"
    /\ pc = "set_write"
    /\ \E ok \in BOOLEAN :
          LET request == SetRequest(locals.key, locals.value)
              to == Propagate(ok, "set_write", "lookup_write")
          IN  /\ wire' = Append(wire,
                     Transport("set_write", "write_bulk", request, ok, 0))
              /\ IF to = "return_err"
                 THEN Bail("rusb::Error", [locals EXCEPT !.request = request])
                 ELSE Continue(to, [locals EXCEPT !.request = request])

\* param_lookup: build the lookup request and write it
param_lookup_write ==
    /\ session = "Ready"
    /\ pc = "lookup_write"
    /\ \E ok \in BOOLEAN :
          LET request == LookupRequest(locals.key)
              to == Propagate(ok, "lookup_write", "lookup_read")
          IN  /\ wire' = Append(wire,
                     Transport("lookup_write", "write_bulk", request, ok, 0))
              /\ IF to = "return_err"
                 THEN Bail("rusb::Error", [locals EXCEPT !.lookup = request])
                 ELSE Continue(to, [locals EXCEPT !.lookup = request])

\* the header check over the first key byte alone
InvalidResponse_one_byte(buf, request) ==
    Slice(buf, 0, 1) # Slice(request, 0, 1) \/ At(buf, 3) # OP_SET

\* the header check over all three key bytes
InvalidResponse_three_bytes(buf, request) ==
    Slice(buf, 0, 3) # Slice(request, 0, 3) \/ At(buf, 3) # OP_SET

\* the header check with && in place of ||
InvalidResponse_and(buf, request) ==
    Slice(buf, 0, 2) # Slice(request, 0, 2) /\ At(buf, 3) # OP_SET

\* param_lookup: the header check, buf[0..2] != request[0..2] || buf[3] != 0xa4
InvalidResponse(buf, request) ==
    Slice(buf, 0, 2) # Slice(request, 0, 2) \/ At(buf, 3) # OP_SET

\* `a` with the byte at 0-based index i changed
Flip(a, i) == [a EXCEPT ![i + 1] = (a[i + 1] + 1) % 256]

\* the value bytes the device may answer with: after a set, the value written,
\* the old value, or a value that differs from the written one in one byte
ReplyValues(written) ==
    IF written = <<>>
    THEN {<<1, 0, 0, 0>>, <<0, 0, 200, 66>>, <<0, 128, 187, 69>>}
    ELSE {written, <<0, 0, 0, 0>>} \cup {Flip(written, i) : i \in 0..3}

ReplyLens == {0, 4, 7, REPLY_LEN}

\* what the device may answer to a lookup of `key`
LookupReplies(key, written) ==
    {SubSeq(<<b0, b1, b2, b3>> \o v, 1, n) :
        b0 \in {At(key, 0), (At(key, 0) + 1) % 256},
        b1 \in {At(key, 1), (At(key, 1) % 3) + 1},
        b2 \in {At(key, 2), 7},
        b3 \in {OP_SET, OP_LOOKUP},
        v \in ReplyValues(written),
        n \in ReplyLens}

\* param_lookup: read the reply into buf and validate the header
param_lookup_read ==
    /\ session = "Ready"
    /\ pc = "lookup_read"
    /\ \E ok \in BOOLEAN, reply \in LookupReplies(locals.key, locals.value) :
          LET buf == Deliver(Zeros(REPLY_LEN), reply)
              n == IF ok THEN Len(reply) ELSE 0
              to == Propagate(ok, "lookup_read",
                              IF locals.op = "set" THEN "set_verify"
                              ELSE "from_beacn_message")
          IN  /\ wire' = Append(wire,
                     Transport("lookup_read", "read_bulk", <<>>, ok, n))
              /\ IF to = "return_err" THEN Bail("rusb::Error", locals)
                 ELSE IF InvalidResponse(buf, locals.lookup)
                 THEN Bail("Invalid Response Received", [locals EXCEPT !.buf = buf])
                 ELSE Continue(to, [locals EXCEPT !.buf = buf])

\* the comparison over request[4..7] and new_value[4..7]: the last byte is left out
ValueMismatch_short(request, new_value) ==
    Slice(request, 4, 7) # Slice(new_value, 4, 7)

\* param_set: old != new
ValueMismatch(request, new_value) ==
    Slice(request, 4, 8) # Slice(new_value, 4, 8)

\* param_set returning the reply without comparing it
param_set_verify_skipped ==
    /\ session = "Ready"
    /\ pc = "set_verify"
    /\ wire' = wire
    /\ Continue("from_beacn_message", locals)

\* param_set: compare the value read back with the value written
param_set_verify ==
    /\ session = "Ready"
    /\ pc = "set_verify"
    /\ wire' = wire
    /\ IF ValueMismatch(locals.request, locals.buf)
       THEN Bail("Value was not changed on the device!", locals)
       ELSE Continue("from_beacn_message", locals)

\* fetch_value / set_value: Ok(Message::from_beacn_message(param, device_type))
return_message ==
    /\ session = "Ready"
    /\ pc = "from_beacn_message"
    /\ wire' = wire
    /\ LET m == from_beacn_message(locals.buf, device_type)
       IN  IF IsPanic(m) THEN Abort(m, locals)
           ELSE /\ result' = Ok(m)
                /\ pc' = "idle"
                /\ locals' = locals
                /\ UNCHANGED <<session, device_type, handle, serial,
                               firmware_version>>

Next ==
    \/ open_find_device
    \/ open_device_open
    \/ open_claim_interface
    \/ open_set_alternate_setting
    \/ open_clear_halt
    \/ open_write_setup
    \/ open_write_identify
    \/ open_read_identify
    \/ fetch_value
    \/ set_value
    \/ param_set_write
    \/ param_lookup_write
    \/ param_lookup_read
    \/ param_set_verify
    \/ return_message

Spec == Init /\ [][Next]_vars

-----------------------------------------------------------------------------
(* The version breakdown of open on its own: the identify reply holds any  *)
(* of the sampled version words, and parse_version applies lines 51-62.    *)

VersionBytes == {0, 15, 18, 52, 86, 120, 240, 255}

InitVersion ==
    /\ session = "Handshaking"
    /\ pc = "parse"
    /\ device_type = NoDeviceType
    /\ handle = TRUE
    /\ serial = <<>>
    /\ firmware_version = NoVersion
    /\ \E v \in [1..4 -> VersionBytes] :
          locals = [NoLocals EXCEPT !.op = "open", !.buf = IdentifyHeader \o v]
    /\ wire = <<>>
    /\ result = NoResult

parse_version ==
    /\ pc = "parse"
    /\ pc' = "parsed"
    /\ firmware_version' = DecodeVersion(read_u32_le(locals.buf, 4))
    /\ UNCHANGED <<session, device_type, handle, serial, locals, wire, result>>

NextVersion == parse_version

SpecVersion == InitVersion /\ [][NextVersion]_vars

-----------------------------------------------------------------------------
(* Properties.                                                             *)

LastOp == wire[Len(wire)]
InCall == session = "Ready" /\ locals.op \in {"fetch", "set"}

\* C1: a message whose kind is restricted to the other device type makes
\* fetch_value and set_value return the error with no transport operation
\* issued; a message of kind Common is never refused by this check.
C1_IncompatibleNoTransport ==
    InCall =>
        LET kind == get_device_message_type(locals.message)
        IN  /\ (kind # "Common" /\ kind # device_type) =>
                  /\ result = Err("Command is not valid for this device")
                  /\ wire = <<>>
                  /\ pc = "idle"
            /\ kind = "Common" =>
                  result.error # "Command is not valid for this device"

C1_Witness ==
    /\ InCall
    /\ locals.op = "set"
    /\ device_type = "BeacnMic"
    /\ get_device_message_type(locals.message) = "BeacnStudio"
    /\ result.status = "err"
    /\ wire = <<>>

\* the 4 value bytes of the set request on the wire, and the 4 value bytes of
\* the reply buffer
WrittenValue == Slice(wire[1].data, 4, 8)
ReadBack == Slice(locals.buf, 4, 8)
SetReadBack ==
    InCall /\ locals.op = "set" /\ locals.buf # <<>> /\ LastOp.step = "lookup_read"

\* C2: set_value never returns Ok when the value bytes read back differ from
\* the value bytes written; once the lookup has accepted the reply, a readback
\* that differs in any byte ends in the verification error.
C2_MismatchNeverSucceeds ==
    (SetReadBack /\ \E i \in 1..4 : WrittenValue[i] # ReadBack[i]) =>
        /\ result.status # "ok"
        /\ pc \in {"set_verify", "idle"}
        /\ (pc = "idle" /\ result.error # "Invalid Response Received") =>
              result = Err("Value was not changed on the device!")

C2_Witness ==
    /\ SetReadBack
    /\ WrittenValue = <<0, 0, 200, 66>>
    /\ ReadBack = <<0, 0, 0, 0>>
    /\ result = Err("Value was not changed on the device!")

\* the lookup request on the wire whose reply was read
LookupOnWire == wire[Len(wire) - 1].data
LookupRead ==
    InCall /\ locals.buf # <<>> /\ LastOp.step = "lookup_read" /\ LastOp.ok

\* C3: the lookup fails with the protocol error, and returns nothing, exactly
\* when reply bytes 0 and 1 do not echo request bytes 0 and 1 or reply byte 3 is
\* not 0xA4.
C3_HeaderCheck ==
    LookupRead =>
        LET rejected ==
                \/ At(locals.buf, 0) # At(LookupOnWire, 0)
                \/ At(locals.buf, 1) # At(LookupOnWire, 1)
                \/ At(locals.buf, 3) # 164
        IN  /\ rejected <=> result = Err("Invalid Response Received")
            /\ rejected => (pc = "idle" /\ result.message = NoMessage)

C3_Witness ==
    /\ LookupRead
    /\ At(locals.buf, 0) = At(LookupOnWire, 0)
    /\ At(locals.buf, 1) = At(LookupOnWire, 1)
    /\ At(locals.buf, 3) # 164
    /\ result = Err("Invalid Response Received")

\* a request that is answered by a reply: the identify and the lookup command
ExpectsReply(t) ==
    t.op = "write_bulk" /\ t.ok /\ t.data[Len(t.data)] \in {161, 163}

\* the requests written whose reply no read has been issued for
InFlight ==
    Cardinality({i \in 1..Len(wire) :
        /\ ExpectsReply(wire[i])
        /\ ~(i < Len(wire) /\ wire[i + 1].op = "read_bulk")})

\* C4: every bulk read directly follows the successful write of the request it
\* answers, and every such request is either the last operation with the code
\* standing at its read, or directly followed by its read: at most one command
\* is in flight, and none is when a call begins or has returned.
C4_StrictlySequential ==
    /\ \A i \in 1..Len(wire) :
          wire[i].op = "read_bulk" => (i > 1 /\ ExpectsReply(wire[i - 1]))
    /\ \A i \in 1..Len(wire) :
          ExpectsReply(wire[i]) =>
              \/ i = Len(wire) /\ pc \in {"read_identify", "lookup_read"}
              \/ i < Len(wire) /\ wire[i + 1].op = "read_bulk"
    /\ pc \in {"read_identify", "lookup_read"} =>
          (wire # <<>> /\ ExpectsReply(LastOp))
    /\ InFlight <= 1
    /\ pc \in {"idle", "done", "panicked"} => InFlight = 0

C4_Witness ==
    /\ InCall
    /\ locals.op = "set"
    /\ result.status = "ok"
    /\ Len(wire) = 3
    /\ wire[1].step = "set_write"
    /\ wire[2].step = "lookup_write"
    /\ wire[3].op = "read_bulk"

\* C5: within one call all transport operations but the last succeeded, no
\* step is issued twice, a failed transport operation is the last one and ends
\* the call with an error, and an error result means the call has ended.
C5_NothingRetried ==
    /\ \A i \in 1..(Len(wire) - 1) : wire[i].ok
    /\ \A i, j \in 1..Len(wire) : i # j => wire[i].step # wire[j].step
    /\ (wire # <<>> /\ ~LastOp.ok) =>
          (result.status = "err" /\ pc \in {"idle", "done"})
    /\ result.status = "err" => pc \in {"idle", "done"}

C5_Witness ==
    /\ InCall
    /\ Len(wire) = 2
    /\ wire[1].step = "set_write" /\ wire[1].ok
    /\ wire[2].step = "lookup_write" /\ ~wire[2].ok
    /\ result = Err("rusb::Error")
    /\ pc = "idle"

\* C6: a fetch_value or set_value that returns an error leaves the session's
\* device type, serial, firmware version and handle as they were, and a
\* failed open leaves no session.
C6_FailureKeepsSession ==
    /\ [](session = "Failed" =>
            /\ device_type = NoDeviceType
            /\ serial = <<>>
            /\ firmware_version = NoVersion
            /\ ~handle)
    /\ [][(session = "Ready" /\ result'.status = "err") =>
            /\ session' = "Ready"
            /\ device_type' = device_type
            /\ serial' = serial
            /\ firmware_version' = firmware_version
            /\ handle' = handle]_vars

C6_Witness ==
    /\ InCall
    /\ result = Err("Value was not changed on the device!")
    /\ device_type = "BeacnStudio"
    /\ serial = <<65, 65>>
    /\ firmware_version = VersionNumber(1, 2, 52, 22136)
    /\ handle

\* the transport steps of open, in order
OpenOrder ==
    <<[op |-> "open", data |-> <<>>],
      [op |-> "claim_interface", data |-> <<>>],
      [op |-> "set_alternate_setting", data |-> <<>>],
      [op |-> "clear_halt", data |-> <<>>],
      [op |-> "write_bulk", data |-> <<0, 0, 0, 160>>],
      [op |-> "write_bulk", data |-> <<0, 0, 0, 161>>],
      [op |-> "read_bulk", data |-> <<>>]>>

FollowsOpenOrder(w) ==
    /\ Len(w) <= Len(OpenOrder)
    /\ \A i \in 1..Len(w) :
          w[i].op = OpenOrder[i].op /\ w[i].data = OpenOrder[i].data
    /\ \A i \in 1..(Len(w) - 1) : w[i].ok

\* C7: open issues its transport steps in the one fixed order; the session
\* becomes Ready only with all seven steps done and successful, holding device
\* type, version, serial and handle; a failed step ends in Failed, and Failed
\* is never left.
C7_OpenOrder ==
    /\ [](session \in {"Handshaking", "Failed"} =>
            /\ FollowsOpenOrder(wire)
            /\ (wire # <<>> /\ ~LastOp.ok) <=> (session = "Failed" /\ wire # <<>>))
    /\ [][(session # "Ready" /\ session' = "Ready") =>
            /\ FollowsOpenOrder(wire')
            /\ Len(wire') = 7
            /\ \A i \in 1..7 : wire'[i].ok
            /\ device_type' \in DeviceTypes
            /\ firmware_version' # NoVersion
            /\ handle']_vars
    /\ [][session = "Failed" => session' = "Failed"]_vars

C7_Witness ==
    /\ session = "Ready"
    /\ pc = "idle"
    /\ Len(wire) = 7
    /\ LastOp.step = "read_identify"
    /\ LastOp.ok

\* C8: open does not return a Ready session when the identify read delivered
\* fewer than the 8 bytes that hold the skipped bytes and the version word.
C8_ShortReadFailsOpen ==
    (session = "Ready" /\ wire # <<>> /\ LastOp.step = "read_identify") =>
        LastOp.n >= 8

\* C9: fetch_value and set_value return Ok only when the lookup read delivered
\* exactly 8 bytes.
C9_ExactlyEightBytes ==
    (InCall /\ result.status = "ok") =>
        (LastOp.step = "lookup_read" /\ LastOp.n = 8)

\* C10: the decoded version holds bits 31-28, 27-24, 23-16 and 15-0 of the
\* little-endian word at offset 4, so major <= 15, minor <= 15, patch <= 255,
\* build <= 65535, and 0x12345678 gives 1, 2, 0x34, 0x5678.
C10_VersionBits ==
    pc = "parsed" =>
        LET b == locals.buf
            v == firmware_version
        IN  /\ v.major = At(b, 7) \div 16
            /\ v.minor = At(b, 7) % 16
            /\ v.patch = At(b, 6)
            /\ v.build = At(b, 5) * 256 + At(b, 4)
            /\ v.major <= 15 /\ v.minor <= 15 /\ v.patch <= 255 /\ v.build <= 65535
            /\ Slice(b, 4, 8) = <<120, 86, 52, 18>> =>
                  v = VersionNumber(1, 2, 52, 22136)

C10_Witness ==
    /\ pc = "parsed"
    /\ Slice(locals.buf, 4, 8) = <<120, 86, 52, 18>>
    /\ firmware_version = VersionNumber(1, 2, 52, 22136)

-----------------------------------------------------------------------------
(* The serial scan of open on its own: the 512-byte input holds any of the *)
(* sampled serials, and parse_serial applies lines 64-75.                  *)

SerialByteSamples == {65, 66, 67, 255}

SerialInputs ==
    LET head == IdentifyHeader \o <<120, 86, 52, 18>>
        ended == {head \o s \o t :
                    s \in UNION {[1..n -> SerialByteSamples] : n \in 0..MaxSerialLen},
                    t \in TrailingSamples}
        full == {head \o [i \in 1..(INPUT_LEN - 8) |-> b] : b \in SerialByteSamples}
    IN  {Deliver(Zeros(INPUT_LEN), r) : r \in ended \cup full}

InitSerial ==
    /\ session = "Handshaking"
    /\ pc = "parse"
    /\ device_type = NoDeviceType
    /\ handle = TRUE
    /\ serial = <<>>
    /\ firmware_version = NoVersion
    /\ \E input \in SerialInputs :
          locals = [NoLocals EXCEPT !.op = "open", !.buf = input]
    /\ wire = <<>>
    /\ result = NoResult

parse_serial ==
    /\ pc = "parse"
    /\ pc' = "parsed"
    /\ serial' = from_utf8_lossy(SerialBytes(locals.buf, 8))
    /\ result' = Ok(NoMessage)
    /\ UNCHANGED <<session, device_type, handle, firmware_version, locals, wire>>

NextSerial == parse_serial

SpecSerial == InitSerial /\ [][NextSerial]_vars

\* the number of serial bytes: n bytes from offset 8 are nonzero and the scan
\* meets a zero byte, or the end of the buffer, right after them
EndsSerial(input, n) ==
    /\ \A i \in 8..(8 + n - 1) : At(input, i) # 0
    /\ 8 + n = Len(input) \/ At(input, 8 + n) = 0

\* C11 as stated: the serial is exactly the bytes from offset 8 up to the first
\* zero byte.
C11_SerialIsTheBytes ==
    pc = "parsed" =>
        /\ EndsSerial(locals.buf, Len(serial))
        /\ \A k \in 1..Len(serial) : serial[k] = At(locals.buf, 8 + k - 1)

\* C11, amended: the serial is the lossy UTF-8 decoding of the bytes from
\* offset 8 up to but excluding the first zero byte (a byte that no UTF-8
\* sequence holds becomes U+FFFD, an ASCII byte is kept); bytes after that zero
\* are ignored, the serial is empty when the byte at offset 8 is zero, the scan
\* ends at the end of the 512-byte buffer when no zero occurs, and the parse
\* never fails.
C11_SerialLossy ==
    pc = "parsed" =>
        /\ result.status = "ok"
        /\ Len(locals.buf) = 512
        /\ EndsSerial(locals.buf, Len(serial))
        /\ \A k \in 1..Len(serial) :
              LET b == At(locals.buf, 8 + k - 1)
              IN  serial[k] = IF b < 128 THEN b ELSE 65533
        /\ At(locals.buf, 8) = 0 => serial = <<>>

C11_Witness ==
    /\ pc = "parsed"
    /\ Slice(locals.buf, 8, 14) = <<65, 66, 67, 0, 255, 255>>
    /\ serial = <<65, 66, 67>>

-----------------------------------------------------------------------------
(* The Exciter family on its own: an input is drawn, and one of the        *)
(* functions of exciter.rs is applied to it.                               *)

PercentValues == {Normalise(k, -FracBits) : k \in 0..(PERCENT_MAX * Pow2(FracBits))}
FreqValues ==
    {Normalise(25 * k, -FracBits) :
        k \in 0..((EXCITER_FREQ_MAX \div 25) * Pow2(FracBits))}

ExciterMessages ==
    {Msg("Exciter", g, NoValue) : g \in ExciterGetters}
    \cup {Msg("Exciter", "Amount", v) : v \in PercentValues}
    \cup {Msg("Exciter", "Frequency", v) : v \in FreqValues}
    \cup {Msg("Exciter", "Enabled", Bool(b)) : b \in BOOLEAN}

\* the 2-byte keys and the 4 value bytes handed to from_beacn
KeySamples == {<<k0, k1>> : k0 \in {0, 1, 2, 3, 4, 255}, k1 \in {0, 1, 255}}
RawValueSamples ==
    {<<0, 0, 0, 0>>, <<1, 0, 0, 0>>, <<0, 0, 200, 66>>, <<0, 128, 187, 69>>}

\* the getter of the field of a value-carrying variant
GetterOf(m) == Msg("Exciter", "Get" \o m.variant, NoValue)

InitExciter ==
    /\ session = "Ready"
    /\ pc = "input"
    /\ device_type \in DeviceTypes
    /\ handle = TRUE
    /\ serial = <<>>
    /\ firmware_version = VersionNumber(0, 0, 0, 0)
    /\ \/ \E m \in ExciterMessages :
             locals = [NoLocals EXCEPT !.op = "message", !.message = m]
       \/ \E k \in KeySamples, v \in RawValueSamples :
             locals = [NoLocals EXCEPT !.op = "wire", !.key = k, !.value = v]
    /\ wire = <<>>
    /\ result = NoResult

ExciterKeeps ==
    UNCHANGED <<session, device_type, handle, serial, firmware_version, wire>>

\* to_beacn_key(msg)
apply_to_beacn_key ==
    /\ pc = "input" /\ locals.op = "message"
    /\ pc' = "to_beacn_key"
    /\ locals' = [locals EXCEPT !.key = Exciter_to_beacn_key(locals.message)]
    /\ result' = Ok(NoMessage)
    /\ ExciterKeeps

\* to_beacn_value(msg)
apply_to_beacn_value ==
    /\ pc = "input" /\ locals.op = "message"
    /\ pc' = "to_beacn_value"
    /\ LET value == Exciter_to_beacn_value(locals.message)
       IN  /\ locals' = [locals EXCEPT !.value = value]
           /\ result' = IF value = Aborted
                        THEN Panicked(Panic("Attempted to Set a Getter"))
                        ELSE Ok(NoMessage)
    /\ ExciterKeeps

\* from_beacn(key, value, device_type)
apply_from_beacn ==
    /\ pc = "input" /\ locals.op = "wire"
    /\ pc' = "from_beacn"
    /\ LET m == Exciter_from_beacn(locals.key, locals.value, device_type)
       IN  result' = IF IsPanic(m) THEN Panicked(m) ELSE Ok(m)
    /\ locals' = locals
    /\ ExciterKeeps

\* from_beacn(to_beacn_key(Get f), to_beacn_value(f(v)), device_type)
apply_round_trip ==
    /\ pc = "input" /\ locals.op = "message"
    /\ Exciter_is_device_message_set(locals.message)
    /\ pc' = "round_trip"
    /\ LET key == Exciter_to_beacn_key(GetterOf(locals.message))
           value == Exciter_to_beacn_value(locals.message)
           m == Exciter_from_beacn(key, value, device_type)
       IN  /\ locals' = [locals EXCEPT !.key = key, !.value = value]
           /\ result' = IF IsPanic(m) THEN Panicked(m) ELSE Ok(m)
    /\ ExciterKeeps

\* generate_fetch_message(device_type): the result holds the Vec<Message>
apply_generate_fetch_message ==
    /\ pc = "input" /\ locals.op = "message"
    /\ pc' = "generate_fetch_message"
    /\ result' = Ok(Exciter_generate_fetch_message(device_type))
    /\ locals' = [locals EXCEPT !.message = NoMessage]
    /\ ExciterKeeps

NextExciter ==
    \/ apply_to_beacn_key
    \/ apply_to_beacn_value
    \/ apply_from_beacn
    \/ apply_round_trip
    \/ apply_generate_fetch_message

SpecExciter == InitExciter /\ [][NextExciter]_vars

\* C12: for each field, each value within the field's bound and each device
\* type, from_beacn of the getter's key and the value bytes of the
\* value-carrying variant is that same variant carrying an equal value.
C12_RoundTrip ==
    pc = "round_trip" =>
        /\ result.status = "ok"
        /\ result.message.variant = locals.message.variant
        /\ result.message.value = locals.message.value

C12_Witness ==
    /\ pc = "round_trip"
    /\ device_type = "BeacnStudio"
    /\ locals.message = Msg("Exciter", "Frequency", F32(19975, -2))
    /\ locals.value = <<0, 14, 156, 69>>
    /\ result.message = Msg("Exciter", "Frequency", F32(19975, -2))

\* C13: to_beacn_value panics on each of the three getters and produces no
\* bytes; it produces 4 bytes for exactly the three value-carrying variants.
C13_GetterHasNoValue ==
    pc = "to_beacn_value" =>
        LET getter == locals.message.variant \in
                          {"GetAmount", "GetFrequency", "GetEnabled"}
            setter == locals.message.variant \in {"Amount", "Frequency", "Enabled"}
        IN  /\ getter \/ setter
            /\ getter <=> result.status = "panic"
            /\ getter <=> locals.value = <<>>
            /\ setter <=> (result.status = "ok" /\ Len(locals.value) = 4)
            /\ setter <=> Exciter_is_device_message_set(locals.message)

C13_Witness ==
    /\ pc = "to_beacn_value"
    /\ locals.message.variant = "GetFrequency"
    /\ result.status = "panic"
    /\ locals.value = <<>>

\* C14 as stated: from_beacn aborts for every 2-byte key other than 01 00,
\* 02 00 and 03 00.
C14_AbortsOffTheThreeKeys ==
    (pc = "from_beacn" /\ locals.key \notin {<<1, 0>>, <<2, 0>>, <<3, 0>>}) =>
        result.status = "panic"

\* C14, amended: from_beacn aborts, and returns no message, for every key
\* whose first byte is not 0x01, 0x02 or 0x03, whatever the second byte, the
\* value and the device type; the second key byte is not examined, so a key
\* with a recognised first byte is decoded whatever its second byte.
C14_AbortsOnUnknownCode ==
    pc = "from_beacn" =>
        /\ At(locals.key, 0) \notin {1, 2, 3} <=> result.status = "panic"
        /\ result.status = "panic" => result.message = NoMessage
        /\ result.status # "panic" =>
              /\ result.status = "ok"
              /\ Exciter_to_beacn_key(result.message) = <<At(locals.key, 0), 0>>

C14_Witness ==
    /\ pc = "from_beacn"
    /\ locals.key = <<4, 0>>
    /\ locals.value = <<0, 0, 200, 66>>
    /\ result.status = "panic"

\* C15: to_beacn_key gives the getter and the value-carrying variant of a
\* field the same key, whatever the value: Amount 01 00, Frequency 02 00,
\* Enabled 03 00; different fields have different keys.
C15_KeyPerField ==
    pc = "to_beacn_key" =>
        LET v == locals.message.variant
        IN  /\ v \in {"GetAmount", "Amount"} => locals.key = <<1, 0>>
            /\ v \in {"GetFrequency", "Frequency"} => locals.key = <<2, 0>>
            /\ v \in {"GetEnabled", "Enabled"} => locals.key = <<3, 0>>
            /\ \A m \in ExciterMessages :
                  Exciter_to_beacn_key(m) = locals.key <=>
                      m.variant \in {v, "Get" \o v} \/ v = "Get" \o m.variant

C15_Witness ==
    /\ pc = "to_beacn_key"
    /\ locals.message = Msg("Exciter", "Amount", F32(25, 0))
    /\ locals.key = <<1, 0>>

\* C16: generate_fetch_message returns, for every device type, exactly the
\* three getters GetAmount, GetFrequency, GetEnabled in that order: none is a
\* set message and the field codes ascend 0x01, 0x02, 0x03.
C16_FetchAllGetters ==
    pc = "generate_fetch_message" =>
        LET ms == result.message
        IN  /\ Len(ms) = 3
            /\ ms[1].variant = "GetAmount"
            /\ ms[2].variant = "GetFrequency"
            /\ ms[3].variant = "GetEnabled"
            /\ \A i \in 1..3 :
                  /\ ms[i].family = "Exciter"
                  /\ ~Exciter_is_device_message_set(ms[i])
                  /\ Exciter_to_beacn_key(ms[i]) = <<i, 0>>

C16_Witness ==
    /\ pc = "generate_fetch_message"
    /\ device_type = "BeacnStudio"
    /\ Len(result.message) = 3
    /\ result.message[3].variant = "GetEnabled"

\* C17: a set_value that passed is_command_valid issues, in this order, the
\* 8-byte write k0 k1 k2 A4 v0 v1 v2 v3, the 4-byte write k0 k1 k2 A3 with the
\* same key bytes, and one read into the 8-byte buffer; each is issued only
\* if the one before succeeded, and a successful set_value consists of exactly
\* these three.
C17_SetFrames ==
    (InCall /\ locals.op = "set") =>
        /\ Len(wire) <= 3
        /\ Len(wire) >= 1 =>
              /\ wire[1].op = "write_bulk"
              /\ Len(wire[1].data) = 8
              /\ Slice(wire[1].data, 0, 3) = locals.key
              /\ At(wire[1].data, 3) = 164
              /\ Slice(wire[1].data, 4, 8) = locals.value
        /\ Len(wire) >= 2 =>
              /\ wire[1].ok
              /\ wire[2].op = "write_bulk"
              /\ Len(wire[2].data) = 4
              /\ Slice(wire[2].data, 0, 3) = Slice(wire[1].data, 0, 3)
              /\ At(wire[2].data, 3) = 163
        /\ Len(wire) >= 3 => (wire[2].ok /\ wire[3].op = "read_bulk")
        /\ pc \in {"set_verify", "from_beacn_message"} \/ result.status = "ok" =>
              /\ Len(wire) = 3
              /\ \A i \in 1..3 : wire[i].ok
              /\ Len(locals.buf) = 8

C17_Witness ==
    /\ InCall
    /\ locals.op = "set"
    /\ result.status = "ok"
    /\ Len(wire) = 3
    /\ wire[1].data = to_beacn_key(locals.message) \o <<164, 0, 0, 200, 66>>
    /\ wire[2].data = to_beacn_key(locals.message) \o <<163>>
    /\ wire[3].op = "read_bulk"

\* C18: when set_value returns Ok, the message returned is the one rebuilt from
\* the reply buffer of the verification read, and it is the value-carrying
\* variant passed in: same family, same field, equal value.
C18_SetReturnsValue ==
    (InCall /\ locals.op = "set" /\ result.status = "ok") =>
        /\ wire[3].op = "read_bulk"
        /\ result.message = from_beacn_message(locals.buf, device_type)
        /\ Slice(locals.buf, 4, 8) = Slice(wire[1].data, 4, 8)
        /\ result.message.family = locals.message.family
        /\ result.message.variant = locals.message.variant
        /\ result.message.value = locals.message.value
        /\ locals.message.family = "Exciter" =>
              /\ Exciter_is_device_message_set(result.message)
              /\ Exciter_to_beacn_key(result.message)
                    = Exciter_to_beacn_key(locals.message)

C18_Witness ==
    /\ InCall
    /\ locals.op = "set"
    /\ result.status = "ok"
    /\ locals.message = Msg("Exciter", "Frequency", F32(625, 3))
    /\ result.message = Msg("Exciter", "Frequency", F32(625, 3))
    /\ At(locals.buf, 2) # At(locals.key, 2)

\* the value-carrying variant of the field an Exciter message addresses
FieldOf(m) ==
    IF m.variant \in {"GetAmount", "Amount"} THEN "Amount"
    ELSE IF m.variant \in {"GetFrequency", "Frequency"} THEN "Frequency"
    ELSE "Enabled"

FetchAccepted ==
    /\ InCall
    /\ locals.op = "fetch"
    /\ locals.message.family = "Exciter"
    /\ locals.buf # <<>>
    /\ result.error # "Invalid Response Received"

\* C19: a fetch_value of an Exciter message whose reply passed the header
\* check never panics in from_beacn and returns the value-carrying variant of
\* the field asked for: reply bytes 0 and 1, which select family and field,
\* equal request bytes 0 and 1.
C19_FetchReturnsField ==
    FetchAccepted =>
        /\ At(locals.buf, 0) = At(LookupOnWire, 0)
        /\ At(locals.buf, 1) = At(LookupOnWire, 1)
        /\ pc \in {"from_beacn_message", "idle"}
        /\ result.status \in {"none", "ok"}
        /\ pc = "idle" =>
              /\ result.status = "ok"
              /\ result.message.family = "Exciter"
              /\ result.message.variant = FieldOf(locals.message)
              /\ result.message.variant \in {"Amount", "Frequency", "Enabled"}

C19_Witness ==
    /\ FetchAccepted
    /\ pc = "idle"
    /\ locals.message = Msg("Exciter", "GetFrequency", NoValue)
    /\ At(locals.buf, 2) # At(LookupOnWire, 2)
    /\ result.message = Msg("Exciter", "Frequency", F32(625, 3))

\* C20: a reply whose bytes 0 and 1 echo the request and whose byte 3 is 0xA4
\* is accepted by the lookup whatever reply byte 2 is, also when it differs
\* from the third key byte of the request.
C20_ThirdKeyByteUnchecked ==
    (LookupRead
        /\ At(locals.buf, 0) = At(LookupOnWire, 0)
        /\ At(locals.buf, 1) = At(LookupOnWire, 1)
        /\ At(locals.buf, 3) = 164) =>
            /\ result.error \notin {"Invalid Response Received", "rusb::Error"}
            /\ pc = "idle" =>
                  (result.status = "ok"
                      \/ result = Err("Value was not changed on the device!"))

C20_Witness ==
    /\ LookupRead
    /\ locals.op = "fetch"
    /\ At(locals.buf, 2) = 7
    /\ At(LookupOnWire, 2) = 0
    /\ At(locals.buf, 3) = 164
    /\ result.status = "ok"

====
